---- MODULE Spec2Model ----
(***************************************************************************)
(* Model of src/script.js: the Task entity, the TaskManager that owns the  *)
(* ordered collection of tasks, and the wall clock the classification      *)
(* predicates read.                                                        *)
(*                                                                         *)
(* Task objects live in a heap (heap : reference -> fields) and the        *)
(* manager's array holds references, as in JavaScript: toggle() mutates    *)
(* the object in place, filter() builds a new array of the same objects.   *)
(* Strings are sequences of one-character strings so that trim() is        *)
(* computed.  Times are milliseconds since the epoch.                      *)
(*                                                                         *)
(* snapshot is an array a caller got from getAllTasks and still holds;     *)
(* view is what the UIController has put on the page.                      *)
(***************************************************************************)
EXTENDS Integers, Sequences, FiniteSets, TLC

VARIABLES tasks, heap, allocated, nextId, now, op, returned, snapshot, view

vars == <<tasks, heap, allocated, nextId, now, op, returned, snapshot, view>>

(***************************************************************************)
(* Bounds of the model.                                                    *)
(***************************************************************************)
\* addTask is explored while nextId <= MaxId
MaxId == 3

(***************************************************************************)
(* Program constants.                                                      *)
(***************************************************************************)
\* 1000 * 60 * 60, the divisor of isDueSoon
MsPerHour == 3600000
\* the due-soon window of isDueSoon, in hours
DueSoonHours == 24

MsPerDay == DueSoonHours * MsPerHour

(***************************************************************************)
(* Inputs.                                                                 *)
(***************************************************************************)
\* characters String.prototype.trim removes (a sample of them)
WhiteSpace == {" ", "\t"}

\* values typed into taskInput
TextInputs == { <<>>, <<" ", "\t">>, <<"a">>, <<" ", "a", "\t">> }

\* the deadline argument of addTask: null, the empty string of an untouched
\* datetime input, a string Date cannot parse, or a string Date parses to t
NullArg == [kind |-> "null", t |-> 0]
EmptyArg == [kind |-> "empty", t |-> 0]
GarbageArg == [kind |-> "garbage", t |-> 0]
DateArg(t) == [kind |-> "datestring", t |-> t]

DeadlineInputs == { NullArg, EmptyArg, GarbageArg, DateArg(MsPerDay + 1) }

\* ids passed to deleteTask and toggleTask: assigned, removed or not yet assigned
IdArgs == 1 .. MaxId

\* the instants at which the wall clock is read: the clock starts at 0 and
\* moves forward from one of these to a later one between two operations
ClockPoints == { 0, 1, MsPerDay, MsPerDay + 1, MsPerDay + 2 }

(***************************************************************************)
(* Values of the deadline field.                                           *)
(***************************************************************************)
Null == [kind |-> "null", t |-> 0]
InvalidDate == [kind |-> "invalid", t |-> 0]
Date(t) == [kind |-> "date", t |-> t]

\* JavaScript truthiness of the deadline argument: null and "" are falsy
Truthy(d) == d.kind \notin {"null", "empty"}

\* new Date(string): the parsed time, or Invalid Date
NewDate(d) == IF d.kind = "datestring" THEN Date(d.t) ELSE InvalidDate

(***************************************************************************)
(* String.prototype.trim                                                   *)
(***************************************************************************)
RECURSIVE TrimStart(_)
TrimStart(s) ==
    IF s = <<>> THEN s
    ELSE IF Head(s) \in WhiteSpace THEN TrimStart(Tail(s)) ELSE s

RECURSIVE TrimEnd(_)
TrimEnd(s) ==
    IF s = <<>> THEN s
    ELSE IF s[Len(s)] \in WhiteSpace THEN TrimEnd(SubSeq(s, 1, Len(s) - 1)) ELSE s

\* variants of trim: one that strips blanks only, one that strips the start only
RECURSIVE TrimBlanksStart(_)
TrimBlanksStart(s) ==
    IF s = <<>> THEN s
    ELSE IF Head(s) = " " THEN TrimBlanksStart(Tail(s)) ELSE s

RECURSIVE TrimBlanksEnd(_)
TrimBlanksEnd(s) ==
    IF s = <<>> THEN s
    ELSE IF s[Len(s)] = " " THEN TrimBlanksEnd(SubSeq(s, 1, Len(s) - 1)) ELSE s

trimBlanksOnly(s) == TrimBlanksEnd(TrimBlanksStart(s))

trimStartOnly(s) == TrimStart(s)

trim(s) == TrimEnd(TrimStart(s))

(***************************************************************************)
(* class Task                                                              *)
(***************************************************************************)
\* constructor(id, text, deadline = null), run at wall-clock time clock
Task(id, text, deadline, clock) ==
    [ id |-> id,
      text |-> text,
      completed |-> FALSE,
      createdAt |-> clock,
      deadline |-> IF Truthy(deadline) THEN NewDate(deadline) ELSE Null ]

\* variant of toggle: sets the flag instead of flipping it
toggleSetsCompleted(t) == [t EXCEPT !.completed = TRUE]

\* toggle()
toggle(t) == [t EXCEPT !.completed = ~t.completed]

\* variant of isOverdue: the completed flag is not consulted
isOverdueIgnoringCompleted(t, clock) ==
    IF t.deadline = Null THEN FALSE
    ELSE t.deadline.kind = "date" /\ clock > t.deadline.t

\* variant of isOverdue: the creation time is compared instead of the clock
isOverdueSinceCreation(t, clock) ==
    IF t.deadline = Null \/ t.completed THEN FALSE
    ELSE t.deadline.kind = "date" /\ t.createdAt > t.deadline.t

\* isOverdue(), read at wall-clock time clock; a comparison with Invalid Date
\* (NaN) is false
isOverdue(t, clock) ==
    IF t.deadline = Null \/ t.completed THEN FALSE
    ELSE t.deadline.kind = "date" /\ clock > t.deadline.t

\* variants of isDueSoon: the 24th hour is excluded; no lower bound is tested
isDueSoonBelowWindow(t, clock) ==
    IF t.deadline = Null \/ t.completed THEN FALSE
    ELSE /\ t.deadline.kind = "date"
         /\ LET timeDiff == t.deadline.t - clock
            IN  timeDiff > 0 /\ timeDiff < DueSoonHours * MsPerHour

isDueSoonNoLowerBound(t, clock) ==
    IF t.deadline = Null \/ t.completed THEN FALSE
    ELSE /\ t.deadline.kind = "date"
         /\ LET timeDiff == t.deadline.t - clock
            IN  timeDiff <= DueSoonHours * MsPerHour

\* isDueSoon(), read at wall-clock time clock; hoursDiff = timeDiff / MsPerHour
\* is compared by cross-multiplication, and is NaN for Invalid Date
isDueSoon(t, clock) ==
    IF t.deadline = Null \/ t.completed THEN FALSE
    ELSE /\ t.deadline.kind = "date"
         /\ LET timeDiff == t.deadline.t - clock
            IN  timeDiff > 0 /\ timeDiff <= DueSoonHours * MsPerHour

\* the class createTaskElement gives the list item of a task
itemClass(t, clock) ==
    IF t.completed THEN "completed"
    ELSE IF isOverdue(t, clock) THEN "overdue"
    ELSE IF isDueSoon(t, clock) THEN "due-soon"
    ELSE ""

(***************************************************************************)
(* Arrays of object references                                             *)
(***************************************************************************)
\* Array.prototype.find: the position of the first element of s that is in
\* hits, 0 when there is none (undefined)
FirstIndex(s, hits) ==
    IF \E i \in 1 .. Len(s) : s[i] \in hits
    THEN CHOOSE i \in 1 .. Len(s) :
             s[i] \in hits /\ \A j \in 1 .. (i - 1) : s[j] \notin hits
    ELSE 0

\* the references an array holds
Refs(s) == { s[i] : i \in 1 .. Len(s) }

\* the reference of a newly allocated object, n objects having been allocated
NewRef(n) == n + 1

\* objects no array refers to any more are collected; live are the references
\* this.tasks and the arrays held by callers still hold
Collect(h, live) == [r \in (DOMAIN h) \cap live |-> h[r]]

\* the tasks of an array, by value
Values(s, h) == [i \in 1 .. Len(s) |-> h[s[i]]]

\* An array held by a caller: its elements and whether it is the very array
\* this.tasks refers to (shared) or an array of its own.
\* this.tasks.push(r) is seen through every reference to that array
Pushed(held, r) ==
    IF held.shared THEN [held EXCEPT !.items = Append(held.items, r)] ELSE held

\* this.tasks = this.tasks.filter(...) makes this.tasks refer to a new array; an
\* array held by a caller keeps its elements
Reassigned(held) == [held EXCEPT !.shared = FALSE]

(***************************************************************************)
(* Record of the last call, kept to state the effect of an operation.      *)
(* size is the length of this.tasks when the call was made; again tells    *)
(* that the call before it was a call of the same operation.               *)
(***************************************************************************)
Call(name, text, id, threw, ret) ==
    [ name |-> name, text |-> text, id |-> id, threw |-> threw, ret |-> ret,
      size |-> Len(tasks), again |-> (op.name = name) ]

(***************************************************************************)
(* class TaskManager                                                       *)
(***************************************************************************)
\* constructor()
Init ==
    /\ tasks = <<>>
    /\ heap = <<>>
    /\ allocated = 0
    /\ nextId = 1
    /\ now = 0
    /\ op = [ name |-> "new", text |-> <<>>, id |-> 0, threw |-> FALSE, ret |-> 0,
              size |-> 0, again |-> FALSE ]
    /\ returned = <<>>
    /\ snapshot = [shared |-> FALSE, items |-> <<>>]
    /\ view = [ page |-> [ list |-> <<>>, total |-> 0, completed |-> 0, remaining |-> 0,
                           clearDisabled |-> TRUE, emptyShown |-> TRUE ],
                dialog |-> "" ]

\* addTask(text, deadline) when text.trim() is empty: throws
addTaskThrows(text, deadline) ==
    /\ trim(text) = <<>>
    /\ op' = Call("addTask", text, 0, TRUE, 0)
    /\ UNCHANGED <<tasks, heap, allocated, nextId, now, returned, snapshot>>

\* variant of addTask: the id is taken from the length of the array
addTaskReturnsLengthId(text, deadline) ==
    /\ trim(text) # <<>>
    /\ nextId <= MaxId
    /\ LET r == NewRef(allocated)
           task == Task(Len(tasks) + 1, trim(text), deadline, now)
       IN  /\ nextId' = nextId + 1
           /\ allocated' = allocated + 1
           /\ heap' = [x \in DOMAIN heap \cup {r} |-> IF x = r THEN task ELSE heap[x]]
           /\ tasks' = Append(tasks, r)
           /\ op' = Call("addTask", text, 0, FALSE, r)
           /\ returned' = Append(returned, task.id)
           /\ snapshot' = Pushed(snapshot, r)
    /\ UNCHANGED now

\* addTask(text, deadline) otherwise: constructs, pushes and returns the task
addTaskReturns(text, deadline) ==
    /\ trim(text) # <<>>
    /\ nextId <= MaxId
    /\ LET r == NewRef(allocated)
           task == Task(nextId, trim(text), deadline, now)
       IN  /\ nextId' = nextId + 1
           /\ allocated' = allocated + 1
           /\ heap' = [x \in DOMAIN heap \cup {r} |-> IF x = r THEN task ELSE heap[x]]
           /\ tasks' = Append(tasks, r)
           /\ op' = Call("addTask", text, 0, FALSE, r)
           /\ returned' = Append(returned, task.id)
           /\ snapshot' = Pushed(snapshot, r)
    /\ UNCHANGED now

addTask(text, deadline) ==
    \/ addTaskThrows(text, deadline)
    \/ addTaskReturns(text, deadline)

\* variant of deleteTask: the last task is moved into the place of the deleted one
deleteTaskSwapRemove(s, h, id) ==
    LET k == FirstIndex(s, { r \in Refs(s) : h[r].id = id })
    IN  IF k = 0 THEN s
        ELSE IF k = Len(s) THEN SubSeq(s, 1, Len(s) - 1)
        ELSE [i \in 1 .. (Len(s) - 1) |-> IF i = k THEN s[Len(s)] ELSE s[i]]

\* variant of deleteTask: the id is used as the position, splice(id - 1, 1)
deleteTaskByIndex(s, h, id) ==
    IF id \in 1 .. Len(s) THEN SubSeq(s, 1, id - 1) \o SubSeq(s, id + 1, Len(s))
    ELSE s

\* the array deleteTask(id) assigns to this.tasks
deleteTaskFilter(s, h, id) ==
    LET Keep(r) == h[r].id # id IN SelectSeq(s, Keep)

\* deleteTask(id)
deleteTask(id) ==
    /\ tasks' = deleteTaskFilter(tasks, heap, id)
    /\ snapshot' = Reassigned(snapshot)
    /\ heap' = Collect(heap, Refs(tasks') \cup Refs(snapshot.items))
    /\ op' = Call("deleteTask", <<>>, id, FALSE, 0)
    /\ UNCHANGED <<allocated, nextId, now, returned>>

\* variant of toggleTask: the id is used as the position, this.tasks[id - 1]
toggleTaskFindByIndex(s, h, id) == IF id \in 1 .. Len(s) THEN s[id] ELSE 0

\* the task toggleTask(id) finds, 0 when there is none
toggleTaskFind(s, h, id) ==
    LET k == FirstIndex(s, { r \in Refs(s) : h[r].id = id })
    IN  IF k = 0 THEN 0 ELSE s[k]

\* toggleTask(id)
toggleTask(id) ==
    /\ LET task == toggleTaskFind(tasks, heap, id)
       IN  heap' = IF task # 0 THEN [heap EXCEPT ![task] = toggle(heap[task])]
                   ELSE heap
    /\ op' = Call("toggleTask", <<>>, id, FALSE, 0)
    /\ UNCHANGED <<tasks, allocated, nextId, now, returned, snapshot>>

\* variant of clearCompleted: splice(i, 1) inside a loop over i, which skips the
\* element that follows a removed one
RECURSIVE SpliceLoop(_, _, _)
SpliceLoop(s, h, i) ==
    IF i > Len(s) THEN s
    ELSE IF h[s[i]].completed
         THEN SpliceLoop(SubSeq(s, 1, i - 1) \o SubSeq(s, i + 1, Len(s)), h, i + 1)
         ELSE SpliceLoop(s, h, i + 1)

clearCompletedSplice(s, h) == SpliceLoop(s, h, 1)

\* the array clearCompleted() assigns to this.tasks
clearCompletedFilter(s, h) ==
    LET Keep(r) == ~h[r].completed IN SelectSeq(s, Keep)

\* clearCompleted()
clearCompleted ==
    /\ tasks' = clearCompletedFilter(tasks, heap)
    /\ snapshot' = Reassigned(snapshot)
    /\ heap' = Collect(heap, Refs(tasks') \cup Refs(snapshot.items))
    /\ op' = Call("clearCompleted", <<>>, 0, FALSE, 0)
    /\ UNCHANGED <<allocated, nextId, now, returned>>

\* variant of getStats: remaining is taken from the overdue count
getStatsRemainingFromOverdue(s, h, clock) ==
    LET Done(r) == h[r].completed
        Overdue(r) == isOverdue(h[r], clock)
        DueSoon(r) == isDueSoon(h[r], clock)
        total == Len(s)
        completed == Len(SelectSeq(s, Done))
        overdue == Len(SelectSeq(s, Overdue))
    IN  [ total |-> total, completed |-> completed, remaining |-> total - overdue,
          overdue |-> overdue, dueSoon |-> Len(SelectSeq(s, DueSoon)) ]

\* getStats(), called at wall-clock time clock
getStats(s, h, clock) ==
    LET Done(r) == h[r].completed
        Overdue(r) == isOverdue(h[r], clock)
        DueSoon(r) == isDueSoon(h[r], clock)
        total == Len(s)
        completed == Len(SelectSeq(s, Done))
    IN  [ total |-> total, completed |-> completed, remaining |-> total - completed,
          overdue |-> Len(SelectSeq(s, Overdue)),
          dueSoon |-> Len(SelectSeq(s, DueSoon)) ]

\* variant of getAllTasks: return this.tasks, the manager's own array
getAllTasksOwnArray == [shared |-> TRUE, items |-> tasks]

\* getAllTasks(): [...this.tasks], a new array of the same objects
getAllTasks == [shared |-> FALSE, items |-> [i \in 1 .. Len(tasks) |-> tasks[i]]]

\* a caller calls getAllTasks() and keeps the array
takeSnapshot ==
    /\ snapshot' = getAllTasks
    /\ heap' = Collect(heap, Refs(tasks) \cup Refs(snapshot'.items))
    /\ op' = Call("getAllTasks", <<>>, 0, FALSE, 0)
    /\ UNCHANGED <<tasks, allocated, nextId, now, returned, view>>

(***************************************************************************)
(* class UIController                                                      *)
(***************************************************************************)
\* values of deadlineInput: empty, or a date and time the browser accepted
UIDeadlineInputs == { EmptyArg, DateArg(MsPerDay + 1) }

\* deadline || null
OrNull(d) == IF Truthy(d) THEN d ELSE NullArg

\* escapeHtml(text): the innerHTML of a node whose textContent is text
RECURSIVE escapeHtml(_)
escapeHtml(text) ==
    IF text = <<>> THEN <<>>
    ELSE (CASE Head(text) = "&" -> <<"&", "a", "m", "p", ";">>
            [] Head(text) = "<" -> <<"&", "l", "t", ";">>
            [] Head(text) = ">" -> <<"&", "g", "t", ";">>
            [] OTHER -> <<Head(text)>>) \o escapeHtml(Tail(text))

\* createTaskElement(task): the id its two handlers are bound to, the text
\* shown, the state of the checkbox and the class of the item
createTaskElement(t, clock) ==
    [ id |-> t.id, text |-> escapeHtml(t.text), checked |-> t.completed,
      class |-> itemClass(t, clock) ]

\* renderTasks(): one element per task of getAllTasks(), in its order
renderTasks ==
    LET all == getAllTasks.items
    IN  [i \in 1 .. Len(all) |-> createTaskElement(heap[all[i]], now)]

\* updateUI(): renderTasks(), updateStats(), updateEmptyState()
updateUI ==
    LET stats == getStats(tasks, heap, now)
        hasTasks == Len(getAllTasks.items) > 0
    IN  [ list |-> renderTasks,
          total |-> stats.total,
          completed |-> stats.completed,
          remaining |-> stats.remaining,
          clearDisabled |-> (stats.completed = 0),
          emptyShown |-> ~hasTasks ]

\* the ids the rendered delete buttons and checkboxes pass to their handlers
RenderedIds == { view.page.list[i].id : i \in 1 .. Len(view.page.list) }

\* handleAddTask() when addTask throws: the catch block alerts
handleAddTaskFails(text, deadline) ==
    /\ addTaskThrows(text, OrNull(deadline))
    /\ view' = [view EXCEPT !.dialog = "alert"]

\* handleAddTask() otherwise
handleAddTaskSucceeds(text, deadline) ==
    /\ addTaskReturns(text, OrNull(deadline))
    /\ view' = [page |-> updateUI', dialog |-> ""]

\* variant of handleDeleteTask: updateUI() is not called
handleDeleteTaskNoUpdate(id) ==
    /\ id \in RenderedIds
    /\ deleteTask(id)
    /\ view' = [view EXCEPT !.dialog = ""]

\* handleDeleteTask(id), called by the delete button of a rendered task
handleDeleteTask(id) ==
    /\ id \in RenderedIds
    /\ deleteTask(id)
    /\ view' = [page |-> updateUI', dialog |-> ""]

\* handleToggleTask(id), called by the checkbox of a rendered task
handleToggleTask(id) ==
    /\ id \in RenderedIds
    /\ toggleTask(id)
    /\ view' = [page |-> updateUI', dialog |-> ""]

\* handleClearCompleted() when the user confirms; the button is enabled
handleClearCompletedConfirmed ==
    /\ ~view.page.clearDisabled
    /\ clearCompleted
    /\ view' = [page |-> updateUI', dialog |-> "confirm"]

\* handleClearCompleted() when the user declines
handleClearCompletedDeclined ==
    /\ ~view.page.clearDisabled
    /\ view' = [view EXCEPT !.dialog = "confirm"]
    /\ op' = Call("declined", <<>>, 0, FALSE, 0)
    /\ UNCHANGED <<tasks, heap, allocated, nextId, now, returned, snapshot>>

(***************************************************************************)
(* The wall clock read by new Date()                                       *)
(***************************************************************************)
Tick(t) ==
    /\ t > now
    /\ now' = t
    /\ op' = Call("tick", <<>>, 0, FALSE, 0)
    /\ UNCHANGED <<tasks, heap, allocated, nextId, returned, snapshot, view>>

(***************************************************************************)
(* The manager used as a library: calls made on it directly, nothing is    *)
(* rendered.                                                               *)
(***************************************************************************)
Next ==
    \/ \E text \in TextInputs, deadline \in DeadlineInputs :
           addTaskThrows(text, deadline) /\ UNCHANGED view
    \/ \E text \in TextInputs, deadline \in DeadlineInputs :
           addTaskReturns(text, deadline) /\ UNCHANGED view
    \/ \E id \in IdArgs : deleteTask(id) /\ UNCHANGED view
    \/ \E id \in IdArgs : toggleTask(id) /\ UNCHANGED view
    \/ clearCompleted /\ UNCHANGED view
    \/ \E t \in ClockPoints : Tick(t)

Spec == Init /\ [][Next]_vars

(***************************************************************************)
(* The same calls with a caller that takes arrays from getAllTasks and     *)
(* keeps the last one, at one clock value.                                 *)
(***************************************************************************)
NextSnapshot ==
    \/ takeSnapshot
    \/ \E text \in TextInputs, deadline \in DeadlineInputs :
           addTaskThrows(text, deadline) /\ UNCHANGED view
    \/ \E text \in TextInputs, deadline \in DeadlineInputs :
           addTaskReturns(text, deadline) /\ UNCHANGED view
    \/ \E id \in IdArgs : deleteTask(id) /\ UNCHANGED view
    \/ \E id \in IdArgs : toggleTask(id) /\ UNCHANGED view
    \/ clearCompleted /\ UNCHANGED view

SpecSnapshot == Init /\ [][NextSnapshot]_vars

\* the wall clock does not stop: while a later instant is left to move to, the
\* clock eventually moves
SpecClock == Init /\ [][Next]_vars /\ WF_vars(\E t \in ClockPoints : Tick(t))

(***************************************************************************)
(* The application: the manager is used through the handlers of the        *)
(* UIController only.                                                      *)
(***************************************************************************)
NextUI ==
    \/ \E text \in TextInputs, deadline \in UIDeadlineInputs :
           handleAddTaskFails(text, deadline)
    \/ \E text \in TextInputs, deadline \in UIDeadlineInputs :
           handleAddTaskSucceeds(text, deadline)
    \/ \E id \in IdArgs : handleDeleteTask(id)
    \/ \E id \in IdArgs : handleToggleTask(id)
    \/ handleClearCompletedConfirmed
    \/ handleClearCompletedDeclined
    \/ \E t \in ClockPoints : Tick(t)

SpecUI == Init /\ [][NextUI]_vars

(***************************************************************************)
(* Vocabulary of the properties                                            *)
(***************************************************************************)
\* the manager's tasks, by value, in the order of this.tasks
Cur == Values(tasks, heap)

\* the positions of the tasks of s that carry the id
Pos(s, id) == { k \in 1 .. Len(s) : s[k].id = id }

\* s without its k-th element
RemoveAt(s, k) == SubSeq(s, 1, k - 1) \o SubSeq(s, k + 1, Len(s))

\* text is empty or consists of whitespace only
Blank(text) == \A i \in 1 .. Len(text) : text[i] \in WhiteSpace

\* text from its first to its last character that is not whitespace
Stripped(text) ==
    LET solid == { i \in 1 .. Len(text) : text[i] \notin WhiteSpace }
    IN  IF solid = {} THEN <<>>
        ELSE SubSeq(text,
                    CHOOSE i \in solid : \A j \in solid : i <= j,
                    CHOOSE i \in solid : \A j \in solid : j <= i)

\* the manager is left as it was
Untouched == tasks' = tasks /\ heap' = heap /\ nextId' = nextId

(***************************************************************************)
(* C1: the ids returned by successful addTask calls are 1, 2, 3, ... in    *)
(* the order of the calls, whatever failing addTask, deleteTask,           *)
(* toggleTask and clearCompleted calls come in between; hence no id is     *)
(* assigned twice, not even the id of a task deleted or cleared since.     *)
(***************************************************************************)
C1_IdsSequential == \A i \in 1 .. Len(returned) : returned[i] = i

\* a third task was added after the first two had been removed
C1_Witness ==
    /\ op.name = "addTask" /\ ~op.threw
    /\ Len(returned) = 3
    /\ Len(tasks) = 1

(***************************************************************************)
(* C2: addTask with an empty or whitespace-only text throws and leaves     *)
(* tasks and nextId as they were: a failed add consumes no id.             *)
(***************************************************************************)
C2_BlankAddFails ==
    [][ (op'.name = "addTask" /\ Blank(op'.text))
            => (op'.threw /\ op'.ret = 0 /\ Untouched /\ returned' = returned) ]_vars

\* a whitespace-only text was refused by a manager that holds tasks
C2_Witness ==
    /\ op.name = "addTask" /\ op.threw
    /\ op.text = <<" ", "\t">>
    /\ Len(tasks) = 2 /\ nextId = 3

(***************************************************************************)
(* C3: addTask with a text whose trimmed form is not empty returns a task  *)
(* with the trimmed text, completed = false and id = the nextId before the *)
(* call; nextId is then one greater, the new task is the last element of   *)
(* tasks, and the tasks already present are unchanged, in their positions. *)
(***************************************************************************)
C3_AddAppends ==
    [][ (op'.name = "addTask" /\ ~Blank(op'.text))
            => /\ ~op'.threw
               /\ op'.ret \in DOMAIN heap' /\ op'.ret \notin DOMAIN heap
               /\ heap'[op'.ret].text = Stripped(op'.text)
               /\ heap'[op'.ret].completed = FALSE
               /\ heap'[op'.ret].id = nextId
               /\ nextId' = nextId + 1
               /\ tasks' = Append(tasks, op'.ret)
               /\ Cur' = Append(Cur, heap'[op'.ret]) ]_vars

\* a text with surrounding whitespace was added behind a completed task
C3_Witness ==
    /\ op.name = "addTask" /\ ~op.threw
    /\ op.text = <<" ", "a", "\t">>
    /\ Len(tasks) = 3
    /\ Cur[1].completed
    /\ Cur[3].text = <<"a">>

(***************************************************************************)
(* C4: getAllTasks lists the surviving tasks in creation order: the ids    *)
(* along the sequence are strictly increasing, so no two tasks share one.  *)
(***************************************************************************)
C4_CreationOrder ==
    LET all == Values(getAllTasks.items, heap)
    IN  \A i, j \in 1 .. Len(all) : i < j => all[i].id < all[j].id

\* the second of three tasks was deleted after the third was toggled
C4_Witness ==
    /\ op.name = "deleteTask" /\ op.id = 2 /\ op.size = 3
    /\ Len(getAllTasks.items) = 2
    /\ Cur[1].id = 1 /\ Cur[2].id = 3 /\ Cur[2].completed

(***************************************************************************)
(* C5: deleteTask(id) removes the task with that id and nothing else: the  *)
(* other tasks stay, in the same order and with the same fields, and       *)
(* nextId is unchanged; when no task has the id nothing changes and        *)
(* nothing is thrown.                                                      *)
(***************************************************************************)
C5_DeleteExact ==
    [][ op'.name = "deleteTask"
            => /\ ~op'.threw
               /\ nextId' = nextId
               /\ IF Pos(Cur, op'.id) = {} THEN Untouched
                  ELSE \E k \in Pos(Cur, op'.id) : Cur' = RemoveAt(Cur, k) ]_vars

\* the first of three tasks was deleted, the two others remain
C5_Witness ==
    /\ op.name = "deleteTask" /\ op.id = 1 /\ op.size = 3
    /\ Len(tasks) = 2
    /\ Cur[1].id = 2 /\ Cur[2].id = 3 /\ Cur[1].completed /\ ~Cur[2].completed

(***************************************************************************)
(* C6: toggleTask(id) on the id of a task in the collection flips the      *)
(* completed flag of that task and changes nothing else: membership and    *)
(* order of tasks, nextId and the fields of every other task stay.         *)
(***************************************************************************)
C6_ToggleFlipsOne ==
    [][ (op'.name = "toggleTask" /\ Pos(Cur, op'.id) # {})
            => /\ ~op'.threw
               /\ tasks' = tasks
               /\ nextId' = nextId
               /\ \E k \in Pos(Cur, op'.id) :
                      Cur' = [Cur EXCEPT ![k].completed = ~Cur[k].completed] ]_vars

\* the second of three tasks, completed before, was toggled back
C6_Witness ==
    /\ op.name = "toggleTask" /\ op.again /\ op.id = 2
    /\ Len(tasks) = 3
    /\ Cur[1].completed /\ ~Cur[2].completed /\ ~Cur[3].completed

(***************************************************************************)
(* C7: toggleTask(id) with an id no task of the collection carries, such   *)
(* as the id of a task removed by deleteTask or clearCompleted, throws     *)
(* nothing and leaves tasks, every completed flag and nextId unchanged.    *)
(***************************************************************************)
C7_ToggleUnknownNoOp ==
    [][ (op'.name = "toggleTask" /\ Pos(Cur, op'.id) = {})
            => (~op'.threw /\ Untouched) ]_vars

\* the id of a removed task was toggled while two other tasks remain
C7_Witness ==
    /\ op.name = "toggleTask" /\ op.id = 1
    /\ nextId = 4
    /\ Len(tasks) = 2 /\ Cur[1].id = 2 /\ Cur[2].id = 3

(***************************************************************************)
(* C8: clearCompleted removes the completed tasks and only those: no       *)
(* completed task is left, the tasks that were not completed are all       *)
(* still there in the same relative order, and nextId is unchanged.        *)
(***************************************************************************)
C8_ClearExact ==
    [][ op'.name = "clearCompleted"
            => LET open == { k \in 1 .. Len(Cur) : ~Cur[k].completed }
                   Rank(k) == Cardinality({ j \in open : j <= k })
               IN  /\ ~op'.threw
                   /\ nextId' = nextId
                   /\ \A i \in 1 .. Len(Cur') : ~Cur'[i].completed
                   /\ Len(Cur') = Cardinality(open)
                   /\ \A k \in open : Cur'[Rank(k)] = Cur[k] ]_vars

\* two adjacent completed tasks were cleared from in front of an open one
C8_Witness ==
    /\ op.name = "clearCompleted" /\ op.size = 3
    /\ Len(tasks) = 1 /\ Cur[1].id = 3

(***************************************************************************)
(* C9: clearCompleted is idempotent: a second call right after a first     *)
(* leaves tasks, flags and nextId as the first call left them.             *)
(***************************************************************************)
C9_ClearIdempotent ==
    [][ (op.name = "clearCompleted" /\ op'.name = "clearCompleted")
            => Untouched ]_vars

\* clearCompleted was called twice in a row on a manager that keeps tasks
C9_Witness ==
    /\ op.name = "clearCompleted" /\ op.again
    /\ Len(tasks) = 2 /\ nextId = 4

(***************************************************************************)
(* C10: at every clock value a task without deadline, and a completed task *)
(* whatever its deadline, is neither overdue nor due soon; toggling an     *)
(* overdue or due-soon task to completed makes both predicates false, and  *)
(* toggling a completed task back gives it the classification its deadline *)
(* implies: overdue when the clock is past the deadline, due soon when the *)
(* deadline is ahead by at most 24 hours.                                  *)
(***************************************************************************)
C10_Suppressed(t) ==
    (t.deadline = Null \/ t.completed) => (~isOverdue(t, now) /\ ~isDueSoon(t, now))

C10_Toggled(before, after) ==
    /\ (isOverdue(before, now) \/ isDueSoon(before, now))
           => (after.completed /\ ~isOverdue(after, now') /\ ~isDueSoon(after, now'))
    /\ before.completed
           => /\ ~after.completed
              /\ isOverdue(after, now')
                     <=> (after.deadline.kind = "date" /\ now' > after.deadline.t)
              /\ isDueSoon(after, now')
                     <=> /\ after.deadline.kind = "date"
                         /\ after.deadline.t - now' > 0
                         /\ after.deadline.t - now' <= 24 * 60 * 60 * 1000

C10_CompletionSuppresses ==
    /\ [](\A k \in 1 .. Len(Cur) : C10_Suppressed(Cur[k]))
    /\ [][ op'.name = "toggleTask"
               => \A k \in Pos(Cur, op'.id) : C10_Toggled(Cur[k], Cur'[k]) ]_vars

\* an overdue task was toggled to completed
C10_Witness ==
    /\ op.name = "toggleTask"
    /\ \E k \in Pos(Cur, op.id) :
           /\ Cur[k].completed
           /\ Cur[k].deadline.kind = "date"
           /\ now > Cur[k].deadline.t

(***************************************************************************)
(* C11: for an uncompleted task whose deadline is the time d, read at the  *)
(* clock value now: isOverdue() is true exactly when now > d, isDueSoon()  *)
(* exactly when 0 < d - now <= 24 hours.  So at now = d the task is        *)
(* neither, at d - now = 24 hours it is due soon, beyond 24 hours neither. *)
(***************************************************************************)
C11_Hours24 == 24 * 60 * 60 * 1000

C11_Boundaries ==
    \A k \in 1 .. Len(Cur) :
        LET t == Cur[k]
            d == t.deadline.t
        IN  (~t.completed /\ t.deadline.kind = "date")
                => /\ isOverdue(t, now) <=> now > d
                   /\ isDueSoon(t, now) <=> (0 < d - now /\ d - now <= C11_Hours24)
                   /\ now = d => (~isOverdue(t, now) /\ ~isDueSoon(t, now))
                   /\ d - now = C11_Hours24 => (isDueSoon(t, now) /\ ~isOverdue(t, now))
                   /\ d - now > C11_Hours24 => (~isDueSoon(t, now) /\ ~isOverdue(t, now))

\* an uncompleted task is read exactly 24 hours before its deadline
C11_Witness ==
    \E k \in 1 .. Len(Cur) :
        /\ ~Cur[k].completed
        /\ Cur[k].deadline.kind = "date"
        /\ Cur[k].deadline.t - now = C11_Hours24
        /\ isDueSoon(Cur[k], now)

(***************************************************************************)
(* C12: at every clock value getStats returns total = the number of tasks, *)
(* completed = the number of completed tasks, remaining = total -          *)
(* completed, overdue = the number of tasks isOverdue() holds for and      *)
(* dueSoon = the number isDueSoon() holds for, all of the current state    *)
(* and the current clock value.                                            *)
(***************************************************************************)
C12_StatsCount ==
    LET stats == getStats(tasks, heap, now)
        all == 1 .. Len(Cur)
    IN  /\ stats.total = Len(tasks)
        /\ stats.completed = Cardinality({ k \in all : Cur[k].completed })
        /\ stats.remaining = Cardinality({ k \in all : ~Cur[k].completed })
        /\ stats.remaining = stats.total - stats.completed
        /\ stats.overdue = Cardinality({ k \in all : isOverdue(Cur[k], now) })
        /\ stats.dueSoon = Cardinality({ k \in all : isDueSoon(Cur[k], now) })

\* three tasks: one completed, one overdue, one without deadline
C12_Witness ==
    /\ getStats(tasks, heap, now)
           = [ total |-> 3, completed |-> 1, remaining |-> 2, overdue |-> 1,
               dueSoon |-> 0 ]
    /\ \E k \in 1 .. Len(Cur) : ~Cur[k].completed /\ Cur[k].deadline = Null

(***************************************************************************)
(* C14: every task of the collection has a text that is not empty and has  *)
(* no whitespace at either end, hence is not whitespace-only and equals    *)
(* its own trimmed form.                                                   *)
(***************************************************************************)
C14_TextTrimmed ==
    \A k \in 1 .. Len(Cur) :
        LET text == Cur[k].text
        IN  /\ Len(text) > 0
            /\ text[1] \notin WhiteSpace
            /\ text[Len(text)] \notin WhiteSpace
            /\ \E i \in 1 .. Len(text) : text[i] \notin WhiteSpace

\* the manager holds a task entered with whitespace around its text
C14_Witness ==
    /\ op.name = "addTask" /\ ~op.threw
    /\ op.text = <<" ", "a", "\t">>
    /\ Cur[Len(Cur)].text = <<"a">>
    /\ Len(Cur) = 2

(***************************************************************************)
(* C15: no operation changes the id, text, createdAt or deadline of a task *)
(* once it is created, and the completed flag of a task changes only in a  *)
(* toggleTask call with the id of that task: addTask, deleteTask and       *)
(* clearCompleted leave the flag of every task that remains as it was.     *)
(***************************************************************************)
C15_OnlyToggleMutates ==
    [][ \A r \in (DOMAIN heap) \cap (DOMAIN heap') :
            /\ heap'[r].id = heap[r].id
            /\ heap'[r].text = heap[r].text
            /\ heap'[r].createdAt = heap[r].createdAt
            /\ heap'[r].deadline = heap[r].deadline
            /\ heap'[r].completed # heap[r].completed
                   => (op'.name = "toggleTask" /\ op'.id = heap[r].id) ]_vars

\* a task created at an earlier clock value, with a deadline, was toggled
\* later and sits between two tasks that were not
C15_Witness ==
    /\ op.name = "toggleTask" /\ op.id = 2
    /\ Len(Cur) = 3
    /\ Cur[2].completed /\ ~Cur[1].completed /\ ~Cur[3].completed
    /\ Cur[2].deadline.kind = "date"
    /\ Cur[2].createdAt < now

(***************************************************************************)
(* C16: at no clock value is a task both overdue and due soon, so every    *)
(* task is in exactly one of the display states completed, overdue,        *)
(* due-soon and normal, the one createTaskElement shows.                   *)
(***************************************************************************)
C16_OneDisplayState ==
    \A k \in 1 .. Len(Cur) :
        LET t == Cur[k]
            normal == ~t.completed /\ ~isOverdue(t, now) /\ ~isDueSoon(t, now)
        IN  /\ ~(isOverdue(t, now) /\ isDueSoon(t, now))
            /\ ~(t.completed /\ isOverdue(t, now))
            /\ ~(t.completed /\ isDueSoon(t, now))
            /\ itemClass(t, now) = "completed" <=> t.completed
            /\ itemClass(t, now) = "overdue" <=> isOverdue(t, now)
            /\ itemClass(t, now) = "due-soon" <=> isDueSoon(t, now)
            /\ itemClass(t, now) = "" <=> normal

\* the four display states are shown side by side or one after the other:
\* here an overdue task next to a completed one
C16_Witness ==
    /\ Len(Cur) >= 2
    /\ \E k \in 1 .. Len(Cur) : itemClass(Cur[k], now) = "overdue"
    /\ \E k \in 1 .. Len(Cur) :
           /\ itemClass(Cur[k], now) = "completed"
           /\ Cur[k].deadline.kind = "date" /\ now > Cur[k].deadline.t

(***************************************************************************)
(* C17: the clock only moves forward, and between two reads without a      *)
(* toggle the classification of an uncompleted task with a deadline moves  *)
(* only forward along normal -> due-soon -> overdue: once overdue it stays *)
(* overdue, and a due-soon task never reads as normal again.               *)
(***************************************************************************)
\* 0 for normal, 1 for due-soon, 2 for overdue
C17_Rank(t, clock) ==
    IF isOverdue(t, clock) THEN 2 ELSE IF isDueSoon(t, clock) THEN 1 ELSE 0

\* the tasks that are in the collection before and after a step, uncompleted
\* at both ends (so not toggled by the step) and with a time as deadline
C17_Watched ==
    { r \in Refs(tasks) \cap Refs(tasks') :
          /\ ~heap[r].completed /\ ~heap'[r].completed
          /\ heap[r].deadline.kind = "date" }

\* C17 as stated
C17_NeverBackwards ==
    [][ /\ now' >= now
        /\ \A r \in C17_Watched :
               /\ isOverdue(heap[r], now) => isOverdue(heap'[r], now')
               /\ C17_Rank(heap'[r], now') >= C17_Rank(heap[r], now) ]_vars

(***************************************************************************)
(* C17, amended: as above, except that a read at the very instant of the   *)
(* deadline (now = deadline) finds the task neither overdue nor due soon,  *)
(* so a due-soon task reads as normal at that one instant; at every other  *)
(* instant the classification has not moved backwards, and once overdue    *)
(* the task stays overdue.                                                 *)
(***************************************************************************)
C17_ForwardExceptAtDeadline ==
    [][ /\ now' >= now
        /\ \A r \in C17_Watched :
               /\ isOverdue(heap[r], now) => isOverdue(heap'[r], now')
               /\ now' # heap[r].deadline.t
                      => C17_Rank(heap'[r], now') >= C17_Rank(heap[r], now)
               /\ now' = heap[r].deadline.t => C17_Rank(heap'[r], now') = 0 ]_vars

\* the clock moved from 1 ms before the deadline of a task, where the task
\* was due soon, onto the deadline, where it reads as normal
C17_Witness ==
    /\ op.name = "tick"
    /\ \E k \in 1 .. Len(Cur) :
           /\ ~Cur[k].completed
           /\ Cur[k].deadline.kind = "date"
           /\ Cur[k].deadline.t = now
           /\ Cur[k].createdAt = now - 1
           /\ C17_Rank(Cur[k], now) = 0

(***************************************************************************)
(* C18: while the clock keeps advancing, a task whose deadline is a time   *)
(* and that stays in the collection without being toggled to completed is  *)
(* eventually reported overdue by isOverdue() and counted in the overdue   *)
(* field of getStats.                                                      *)
(***************************************************************************)
C18_EventuallyOverdue ==
    \A r \in 1 .. MaxId :
        (r \in Refs(tasks) /\ heap[r].deadline.kind = "date")
            ~> \/ r \notin Refs(tasks)
               \/ heap[r].completed
               \/ /\ isOverdue(heap[r], now)
                  /\ getStats(tasks, heap, now).overdue >= 1

\* the clock moved past the deadline of a task created before its deadline
C18_Witness ==
    /\ op.name = "tick"
    /\ getStats(tasks, heap, now).overdue = 1
    /\ \E k \in 1 .. Len(Cur) :
           /\ Cur[k].createdAt < Cur[k].deadline.t
           /\ Cur[k].deadline.kind = "date"
           /\ isOverdue(Cur[k], now)

(***************************************************************************)
(* C13: an array returned by getAllTasks keeps its membership and order    *)
(* whatever addTask, deleteTask and clearCompleted calls follow; its       *)
(* elements are the manager's own task objects, so a later toggleTask of a *)
(* task still in the manager shows through the array as a flipped          *)
(* completed flag, and nothing else of its elements changes.               *)
(***************************************************************************)
C13_SnapshotKeeps ==
    [][ op'.name \in {"addTask", "deleteTask", "clearCompleted", "toggleTask"}
            => /\ snapshot'.items = snapshot.items
               /\ \A j \in 1 .. Len(snapshot.items) :
                      LET r == snapshot.items[j]
                          toggled == /\ op'.name = "toggleTask"
                                     /\ r \in Refs(tasks)
                                     /\ heap[r].id = op'.id
                      IN  /\ r \in DOMAIN heap /\ r \in DOMAIN heap'
                          /\ heap'[r].id = heap[r].id
                          /\ heap'[r].completed = (IF toggled THEN ~heap[r].completed
                                                   ELSE heap[r].completed) ]_vars

\* the array was taken when the manager held tasks 1 and 2; since then task 1
\* was deleted, task 3 added and task 2 toggled, which shows through the array
C13_Witness ==
    /\ op.name = "toggleTask" /\ op.id = 2
    /\ Len(snapshot.items) = 2
    /\ Values(snapshot.items, heap)[1].id = 1
    /\ Values(snapshot.items, heap)[2].id = 2
    /\ Values(snapshot.items, heap)[2].completed
    /\ Len(tasks) = 2 /\ Cur[1].id = 2 /\ Cur[2].id = 3

(***************************************************************************)
(* C19: when handleAddTask has added a task, and when handleDeleteTask,    *)
(* handleToggleTask or a confirmed handleClearCompleted has returned, the  *)
(* rendered list shows exactly the manager's tasks in the manager's order  *)
(* (id, text, checkbox) and the displayed total, completed and remaining   *)
(* counts are those of the manager; a handleAddTask whose addTask throws   *)
(* shows the alert and leaves the manager and the rendered page as they    *)
(* were.                                                                   *)
(***************************************************************************)
C19_Shown ==
    LET list == view.page.list
        all == 1 .. Len(Cur)
    IN  /\ Len(list) = Len(Cur)
        /\ \A i \in all :
               /\ list[i].id = Cur[i].id
               /\ list[i].text = escapeHtml(Cur[i].text)
               /\ list[i].checked = Cur[i].completed
        /\ view.page.total = Len(Cur)
        /\ view.page.completed = Cardinality({ k \in all : Cur[k].completed })
        /\ view.page.remaining = Cardinality({ k \in all : ~Cur[k].completed })

C19_Mutating == { "addTask", "deleteTask", "toggleTask", "clearCompleted" }

C19_HandlersRefresh ==
    [][ /\ (op'.name \in C19_Mutating /\ ~op'.threw) => C19_Shown'
        /\ (op'.name = "addTask" /\ op'.threw)
               => /\ view'.dialog = "alert"
                  /\ Untouched
                  /\ view'.page = view.page ]_vars

\* the delete button of one of three rendered tasks was used; two tasks are
\* left on the page, one of them checked
C19_Witness ==
    /\ op.name = "deleteTask"
    /\ Len(view.page.list) = 2
    /\ view.page.total = 2 /\ view.page.completed = 1
    /\ view.page.list[1].id = 1 /\ view.page.list[2].id = 3

====
